---- MODULE Spec2Model ----
(***************************************************************************)
(* The data layer of the test-management app (src/app.py): the five        *)
(* tables created by init_db, the functions that read and write them, and  *)
(* the foreign-key rules of the schema (ON DELETE CASCADE / SET NULL).     *)
(*                                                                         *)
(* Strings are sequences of one-character strings, so that str.strip(),    *)
(* the f"TC-{n}" formatting and the SQL CAST(SUBSTR(external_id, 4) AS     *)
(* INTEGER) parsing are computed, character by character, as the code      *)
(* computes them.  Timestamps (created_at, noted_at) and the columns of     *)
(* test_runs that no function of the data layer reads back (url, phase,    *)
(* comment) are not part of the state.                                     *)
(* Row ids are taken from one increasing counter per table (AUTOINCREMENT  *)
(* / SERIAL); the gaps a rejected insert may leave are not modelled.       *)
(***************************************************************************)
EXTENDS Integers, Sequences, FiniteSets, TLC

\* ------------------------------------------------------------------ bounds
MaxRows == 5            \* rows ever inserted, over all tables (Spec)
MaxConcRows == 4        \* rows ever inserted, over all tables (SpecConc)
MaxCatalogRun == 11     \* test cases created in a row (SpecCatalog)
NumHandlers == 2        \* request handlers running at the same time (SpecConc)
MaxFormCases == 2       \* test cases created with free arguments (SpecForm)

\* Optional[int] None / SQL NULL in an integer column (row ids start at 1).
NULL == 0

\* ----------------------------------------------------------------- strings
Digit(d) ==
    CASE d = 0 -> "0" [] d = 1 -> "1" [] d = 2 -> "2" [] d = 3 -> "3"
      [] d = 4 -> "4" [] d = 5 -> "5" [] d = 6 -> "6" [] d = 7 -> "7"
      [] d = 8 -> "8" [] d = 9 -> "9"

DigitChars == {"0", "1", "2", "3", "4", "5", "6", "7", "8", "9"}

DigitValue(c) == CHOOSE d \in 0..9 : Digit(d) = c

\* Python's str(n) for n >= 0, as f"TC-{next_num}" formats next_num.
RECURSIVE IntToStr(_)
IntToStr(n) ==
    IF n < 10 THEN <<Digit(n)>>
    ELSE Append(IntToStr(n \div 10), Digit(n % 10))

\* f"TC-{next_num}"
FormatExternalId(next_num) == <<"T", "C", "-">> \o IntToStr(next_num)

\* external_id LIKE 'TC-%'
LikeTC(s) == Len(s) >= 3 /\ SubSeq(s, 1, 3) = <<"T", "C", "-">>

\* SUBSTR(external_id, 4) / SUBSTRING(external_id FROM 4): 1-based, to the end
Substr4(s) == SubSeq(s, 4, Len(s))

\* CAST(text AS INTEGER): the value of the longest prefix of digits, 0 if none
RECURSIVE CastDigits(_, _)
CastDigits(s, acc) ==
    IF s = <<>> \/ Head(s) \notin DigitChars THEN acc
    ELSE CastDigits(Tail(s), 10 * acc + DigitValue(Head(s)))

\* a CAST that reads one digit only
CastInteger_FirstDigit(s) ==
    IF s = <<>> \/ Head(s) \notin DigitChars THEN 0 ELSE DigitValue(Head(s))

CastInteger(s) == CastDigits(s, 0)

\* str.strip(): leading and trailing blanks removed
RECURSIVE LStrip(_)
LStrip(s) == IF s # <<>> /\ Head(s) = " " THEN LStrip(Tail(s)) ELSE s

RECURSIVE RStrip(_)
RStrip(s) ==
    IF s # <<>> /\ s[Len(s)] = " " THEN RStrip(SubSeq(s, 1, Len(s) - 1)) ELSE s

Strip(s) == RStrip(LStrip(s))

\* json.dumps(steps) for a list of strings without quotes or backslashes:
\* ["s", "s"]
RECURSIVE JsonItems(_)
JsonItems(steps) ==
    IF steps = <<>> THEN <<>>
    ELSE <<"\"">> \o Head(steps) \o <<"\"">> \o
         (IF Tail(steps) = <<>> THEN <<>> ELSE <<",", " ">> \o JsonItems(Tail(steps)))

JsonDumps(steps) == <<"[">> \o JsonItems(steps) \o <<"]">>

\* json.loads(steps_json): the strings between the quotes, in order
RECURSIVE JsonScan(_, _, _, _)
JsonScan(text, inString, cur, acc) ==
    IF text = <<>> THEN acc
    ELSE IF inString
         THEN IF Head(text) = "\"" THEN JsonScan(Tail(text), FALSE, <<>>, Append(acc, cur))
              ELSE JsonScan(Tail(text), TRUE, Append(cur, Head(text)), acc)
         ELSE JsonScan(Tail(text), Head(text) = "\"", <<>>, acc)

JsonLoads(text) == JsonScan(text, FALSE, <<>>, <<>>)

\* MAX(...) of a non-empty set of integers
SetMax(S) == CHOOSE m \in S : \A x \in S : x <= m

\* ------------------------------------------------------------------ inputs
\* names as typed into the forms of page_users and page_sessions
UserNameInputs == {<<"A">>, <<" ", "A">>, <<" ">>}
SessionNameInputs == {<<"S">>, <<"S", " ">>, <<" ">>}
\* CHECK(role IN ('tester','testlead'))
Roles == {"tester", "testlead"}
\* role: str, any string a caller passes
RoleInputs == Roles \cup {"admin"}
\* CHECK(category IN ('integration','studio'))
Categories == {"integration", "studio"}
\* category: str, any string a caller passes
CategoryInputs == Categories \cup {"other"}
\* title, steps and expected as a caller passes them
TitleInputs == {<<"t", " ">>, <<" ">>}
ExpectedInputs == {<<" ", "e">>, <<" ">>}
StepsInputs ==
    { <<>>, << <<"s">> >>, << <<" ">> >>,
      << <<"s">>, <<"s">>, <<"s">>, <<"s">>, <<"s">> >>,
      << <<"s">>, <<"s">>, <<"s">>, <<"s">>, <<"s">>, <<"s">> >> }
\* one filled-in form of page_test_cases
FilledTitle == <<"t">>
FilledSteps == << <<"s">> >>
FilledExpected == <<"e">>
Statuses == {"passed", "failed"}
Severities == {"minor", "major", "critical"}
Backends == {"sqlite", "postgres"}
Handlers == 1..NumHandlers

\* ------------------------------------------------------------------- state
VARIABLES
    DB_BACKEND,   \* "sqlite" or "postgres", fixed at start-up
    users,        \* rows of users:      [id, name, role]
    sessions,     \* rows of sessions:   [id, name, closed]
    test_cases,   \* rows of test_cases: [id, external_id, title, steps_json,
                  \*                      expected_result, category, author_id]
    test_runs,    \* rows of test_runs:  [id, test_case_id, session_id, runner_id, status]
    failures,     \* rows of failures:   [id, run_id, severity, noted_by]
    seq,          \* last id handed out, per table
    handler,      \* per request handler: the call it is in the middle of
    issued        \* history: every external_id a test case was ever stored with

vars == <<DB_BACKEND, users, sessions, test_cases, test_runs, failures, seq, handler, issued>>

tables == <<users, sessions, test_cases, test_runs, failures>>

Idle == [op |-> "idle"]

Init ==
    /\ DB_BACKEND \in Backends
    /\ users = {}
    /\ sessions = {}
    /\ test_cases = {}
    /\ test_runs = {}
    /\ failures = {}
    /\ seq = [users |-> 0, sessions |-> 0, test_cases |-> 0, test_runs |-> 0, failures |-> 0]
    /\ handler = [h \in Handlers |-> Idle]
    /\ issued = {}

\* What a call hands back: the value it returns, or the exception it raises.
Returns(val) == [exc |-> "", val |-> val]
Raises(exc) == [exc |-> exc, val |-> <<>>]

\* An exception leaves the function before conn.commit(): nothing is written.
NothingWritten == UNCHANGED <<users, sessions, test_cases, test_runs, failures, seq, issued>>

UserExists(id) == \E u \in users : u.id = id
SessionExists(id) == \E s \in sessions : s.id = id
CaseExists(id) == \E tc \in test_cases : tc.id = id
RunExists(id) == \E r \in test_runs : r.id = id

\* a nullable REFERENCES users(id) column accepts NULL or an existing user
UserRefOk(id) == id = NULL \/ UserExists(id)

\* ids a caller may pass: every id handed out so far and one that never was
UserIdInputs == 1..(seq.users + 1)
SessionIdInputs == 1..(seq.sessions + 1)
CaseIdInputs == 1..(seq.test_cases + 1)
RunIdInputs == 1..(seq.test_runs + 1)

\* ------------------------------------------------------------ Directory
\* INSERT INTO users(name, role) VALUES (name, role), with a fresh id
InsertUser(name, role) ==
    users \cup {[id |-> seq.users + 1, name |-> name, role |-> role]}

\* INSERT OR IGNORE alone: an existing user keeps the old role
UpdateUserRole_Ignored(name, role) == users

\* UPDATE users SET role=? WHERE name=?   /   DO UPDATE SET role = EXCLUDED.role
UpdateUserRole(name, role) ==
    {IF u.name = name THEN [u EXCEPT !.role = role] ELSE u : u \in users}

\* INSERT ... ON CONFLICT(name) DO UPDATE SET role = EXCLUDED.role
PostgresUpsert(name, role) ==
    IF \E u \in users : u.name = name
    THEN UpdateUserRole(name, role)
    ELSE InsertUser(name, role)

\* INSERT OR IGNORE ...; if cur.rowcount == 0: UPDATE users SET role=? WHERE name=?
\* (OR IGNORE skips a row that breaks UNIQUE(name) or the CHECK on role)
SqliteUpsert(name, role) ==
    LET ignored == (\E u \in users : u.name = name) \/ role \notin Roles
        rowcount == IF ignored THEN 0 ELSE 1
    IN  IF rowcount = 0 THEN UpdateUserRole(name, role) ELSE InsertUser(name, role)

\* the users table as upsert_user(name, role) commits it
upsert_user_rows(name, role) ==
    IF DB_BACKEND = "postgres" THEN PostgresUpsert(Strip(name), role)
    ELSE SqliteUpsert(Strip(name), role)

\* the CHECK on role: postgres rejects the INSERT; on sqlite the INSERT is
\* skipped and the UPDATE, if it finds the user, is rejected
upsert_user_result(name, role) ==
    IF role \in Roles THEN Returns("None")
    ELSE IF DB_BACKEND = "postgres" THEN Raises("IntegrityError")
    ELSE IF \E u \in users : u.name = Strip(name) THEN Raises("IntegrityError")
    ELSE Returns("None")

\* a commit after the statements, reached or not
upsert_user_committed_Unguarded(name, role) == upsert_user_rows(name, role)

\* try: ... conn.commit()  finally: conn.close()
\* an exception skips the commit, and the close drops what was written
upsert_user_committed(name, role) ==
    IF upsert_user_result(name, role).exc # "" THEN users
    ELSE upsert_user_rows(name, role)

upsert_user(name, role) ==
    LET after == upsert_user_committed(name, role)
    IN  /\ users' = after
        /\ seq' = IF \E u \in after : u.id = seq.users + 1
                  THEN [seq EXCEPT !.users = @ + 1] ELSE seq
        /\ UNCHANGED <<DB_BACKEND, sessions, test_cases, test_runs, failures, handler, issued>>

\* the delete on a schema whose test_runs.runner_id has ON DELETE CASCADE
DeleteUser_CascadeRuns(id) ==
    LET gone == {r \in test_runs : r.runner_id = id} IN
    /\ UserExists(id)
    /\ users' = {u \in users : u.id # id}
    /\ test_cases' =
         {IF tc.author_id = id THEN [tc EXCEPT !.author_id = NULL] ELSE tc : tc \in test_cases}
    /\ test_runs' = test_runs \ gone
    /\ failures' =
         {IF f.noted_by = id THEN [f EXCEPT !.noted_by = NULL] ELSE f :
             f \in {x \in failures : \A r \in gone : x.run_id # r.id}}
    /\ UNCHANGED <<DB_BACKEND, sessions, seq, handler, issued>>

\* ON DELETE SET NULL on test_cases.author_id, test_runs.runner_id, failures.noted_by
DeleteUser(id) ==
    /\ UserExists(id)
    /\ users' = {u \in users : u.id # id}
    /\ test_cases' =
         {IF tc.author_id = id THEN [tc EXCEPT !.author_id = NULL] ELSE tc : tc \in test_cases}
    /\ test_runs' =
         {IF r.runner_id = id THEN [r EXCEPT !.runner_id = NULL] ELSE r : r \in test_runs}
    /\ failures' =
         {IF f.noted_by = id THEN [f EXCEPT !.noted_by = NULL] ELSE f : f \in failures}
    /\ UNCHANGED <<DB_BACKEND, sessions, seq, handler, issued>>

\* -------------------------------------------------------- SessionLedger
\* name TEXT UNIQUE NOT NULL
create_session_result(name) ==
    IF \E s \in sessions : s.name = Strip(name)
    THEN Raises("IntegrityError") ELSE Returns("None")

create_session(name) ==
    /\ IF create_session_result(name).exc # ""
       THEN NothingWritten
       ELSE /\ sessions' = sessions \cup
                   {[id |-> seq.sessions + 1, name |-> Strip(name), closed |-> FALSE]}
            /\ seq' = [seq EXCEPT !.sessions = @ + 1]
            /\ UNCHANGED <<users, test_cases, test_runs, failures, issued>>
    /\ UNCHANGED <<DB_BACKEND, handler>>

\* the subquery without "AND r.status = 'passed'"
PassedRunIn_AnyStatus(tc, session_id) ==
    \E r \in test_runs : r.test_case_id = tc.id /\ r.session_id = session_id

\* r.test_case_id = tc.id AND r.session_id = ? AND r.status = 'passed'
PassedRunIn(tc, session_id) ==
    \E r \in test_runs :
        r.test_case_id = tc.id /\ r.session_id = session_id /\ r.status = "passed"

\* a count that looks at the latest run of each case in the session only
missing_pass_LatestRun(session_id) ==
    Cardinality({tc \in test_cases :
        LET rs == {r \in test_runs : r.test_case_id = tc.id /\ r.session_id = session_id}
        IN  rs = {} \/ (CHOOSE r \in rs : \A o \in rs : o.id <= r.id).status # "passed"})

\* SELECT COUNT(*) FROM test_cases tc WHERE NOT EXISTS (...)   in close_session
missing_pass(session_id) ==
    Cardinality({tc \in test_cases : ~PassedRunIn(tc, session_id)})

\* if missing_pass > 0: return False ... return True
close_session_result(session_id) ==
    IF missing_pass(session_id) > 0 THEN Returns(FALSE) ELSE Returns(TRUE)

\* UPDATE sessions SET closed = (id = ?): closes one session, reopens the others
SetClosed_OnlyThis(session_id) ==
    {[s EXCEPT !.closed = (s.id = session_id)] : s \in sessions}

\* UPDATE sessions SET closed=1 WHERE id=?
SetClosed(session_id) ==
    {IF s.id = session_id THEN [s EXCEPT !.closed = TRUE] ELSE s : s \in sessions}

\* an UPDATE that runs before the count is looked at
close_session_committed_UpdateFirst(session_id) == SetClosed(session_id)

\* the sessions table as close_session(session_id) leaves it: the UPDATE and
\* the commit are reached only past "if missing_pass > 0: ... return False"
close_session_committed(session_id) ==
    IF close_session_result(session_id).val THEN SetClosed(session_id) ELSE sessions

close_session(session_id) ==
    /\ sessions' = close_session_committed(session_id)
    /\ UNCHANGED <<DB_BACKEND, users, test_cases, test_runs, failures, seq, handler, issued>>

\* session_id ... REFERENCES sessions(id) ON DELETE CASCADE
DeleteSession(id) ==
    LET gone == {r \in test_runs : r.session_id = id} IN
    /\ SessionExists(id)
    /\ sessions' = {s \in sessions : s.id # id}
    /\ test_runs' = test_runs \ gone
    /\ failures' = {f \in failures : \A r \in gone : f.run_id # r.id}
    /\ UNCHANGED <<DB_BACKEND, users, test_cases, seq, handler, issued>>

\* -------------------------------------------------------------- Catalog
\* SELECT COUNT(*) FROM test_cases
MaxExternalNumber_Count == Cardinality(test_cases)

\* SELECT MAX(CAST(SUBSTR(external_id, 4) AS INTEGER)) FROM test_cases
\* WHERE external_id LIKE 'TC-%'     (NULL without rows: "row[0] or 0" makes it 0)
MaxExternalNumber ==
    LET nums == {CastInteger(Substr4(tc.external_id)) :
                    tc \in {x \in test_cases : LikeTC(x.external_id)}}
    IN  IF nums = {} THEN 0 ELSE SetMax(nums)

get_next_external_id ==
    LET next_num == MaxExternalNumber + 1 IN FormatExternalId(next_num)

\* the INSERT on a table that lacks the unique index on external_id
InsertTestCaseResult_NoUniqueIndex(external_id, category, author_id) ==
    IF category \notin Categories \/ ~UserRefOk(author_id)
    THEN Raises("IntegrityError") ELSE Returns(external_id)

\* the INSERT of add_test_case: the CHECK on category, the unique index on
\* external_id, and author_id REFERENCES users(id)
InsertTestCaseResult(external_id, category, author_id) ==
    IF \/ category \notin Categories
       \/ \E tc \in test_cases : tc.external_id = external_id
       \/ ~UserRefOk(author_id)
    THEN Raises("IntegrityError") ELSE Returns(external_id)

\* VALUES (external_id, title.strip(), steps_json, expected.strip(), category, author_id)
InsertTestCase(external_id, title, steps_json, expected, category, author_id) ==
    IF InsertTestCaseResult(external_id, category, author_id).exc # ""
    THEN NothingWritten
    ELSE /\ test_cases' = test_cases \cup
                {[id |-> seq.test_cases + 1, external_id |-> external_id,
                  title |-> Strip(title), steps_json |-> steps_json,
                  expected_result |-> Strip(expected),
                  category |-> category, author_id |-> author_id]}
         /\ seq' = [seq EXCEPT !.test_cases = @ + 1]
         /\ issued' = issued \cup {external_id}
         /\ UNCHANGED <<users, sessions, test_runs, failures>>

\* title, steps and expected are stored as they come: the result depends on
\* category and author_id only
add_test_case_result(title, steps, expected, category, author_id) ==
    InsertTestCaseResult(get_next_external_id, category, author_id)

add_test_case(title, steps, expected, category, author_id) ==
    /\ InsertTestCase(get_next_external_id, title, JsonDumps(steps), expected,
                      category, author_id)
    /\ UNCHANGED <<DB_BACKEND, handler>>

\* the delete on a schema whose failures.run_id has no ON DELETE CASCADE
DeleteTestCase_RunsOnly(id) ==
    /\ CaseExists(id)
    /\ test_cases' = {tc \in test_cases : tc.id # id}
    /\ test_runs' = {r \in test_runs : r.test_case_id # id}
    /\ UNCHANGED <<DB_BACKEND, users, sessions, failures, seq, handler, issued>>

\* test_case_id ... REFERENCES test_cases(id) ON DELETE CASCADE, and
\* failures.run_id ... REFERENCES test_runs(id) ON DELETE CASCADE
DeleteTestCase(id) ==
    LET gone == {r \in test_runs : r.test_case_id = id} IN
    /\ CaseExists(id)
    /\ test_cases' = {tc \in test_cases : tc.id # id}
    /\ test_runs' = test_runs \ gone
    /\ failures' = {f \in failures : \A r \in gone : f.run_id # r.id}
    /\ UNCHANGED <<DB_BACKEND, users, sessions, seq, handler, issued>>

\* --------------------------------------------------------------- RunLog
\* a record_test_run that looks the session up and refuses a closed one
record_test_run_result_OpenOnly(test_case_id, session_id, runner_id) ==
    IF \/ ~CaseExists(test_case_id)
       \/ ~\E s \in sessions : s.id = session_id /\ ~s.closed
       \/ ~UserRefOk(runner_id)
    THEN Raises("IntegrityError") ELSE Returns("None")

\* a sqlite connection opened without PRAGMA foreign_keys = ON
record_test_run_result_NoForeignKeys(test_case_id, session_id, runner_id) ==
    Returns("None")

\* test_case_id, session_id NOT NULL REFERENCES ...; runner_id REFERENCES users(id)
record_test_run_result(test_case_id, session_id, runner_id) ==
    IF ~CaseExists(test_case_id) \/ ~SessionExists(session_id) \/ ~UserRefOk(runner_id)
    THEN Raises("IntegrityError") ELSE Returns("None")

\* an INSERT OR REPLACE on a table with UNIQUE(test_case_id, session_id)
record_test_run_Replace(test_case_id, session_id, runner_id, status) ==
    LET gone == {r \in test_runs :
                    r.test_case_id = test_case_id /\ r.session_id = session_id} IN
    /\ IF record_test_run_result(test_case_id, session_id, runner_id).exc # ""
       THEN NothingWritten
       ELSE /\ test_runs' = (test_runs \ gone) \cup
                   {[id |-> seq.test_runs + 1, test_case_id |-> test_case_id,
                     session_id |-> session_id, runner_id |-> runner_id,
                     status |-> status]}
            /\ failures' = {f \in failures : \A r \in gone : f.run_id # r.id}
            /\ seq' = [seq EXCEPT !.test_runs = @ + 1]
            /\ UNCHANGED <<users, sessions, test_cases, issued>>
    /\ UNCHANGED <<DB_BACKEND, handler>>

record_test_run(test_case_id, session_id, runner_id, status) ==
    /\ IF record_test_run_result(test_case_id, session_id, runner_id).exc # ""
       THEN NothingWritten
       ELSE /\ test_runs' = test_runs \cup
                   {[id |-> seq.test_runs + 1, test_case_id |-> test_case_id,
                     session_id |-> session_id, runner_id |-> runner_id,
                     status |-> status]}
            /\ seq' = [seq EXCEPT !.test_runs = @ + 1]
            /\ UNCHANGED <<users, sessions, test_cases, failures, issued>>
    /\ UNCHANGED <<DB_BACKEND, handler>>

\* failures.run_id ... REFERENCES test_runs(id) ON DELETE CASCADE
DeleteTestRun(id) ==
    /\ RunExists(id)
    /\ test_runs' = {r \in test_runs : r.id # id}
    /\ failures' = {f \in failures : f.run_id # id}
    /\ UNCHANGED <<DB_BACKEND, users, sessions, test_cases, seq, handler, issued>>

\* ------------------------------------------------------ FailureRegister
\* a plain INSERT INTO failures(...) on a table without UNIQUE(run_id)
SqliteReplaceFailure_PlainInsert(run_id, severity, user_id) ==
    failures \cup {[id |-> seq.failures + 1, run_id |-> run_id,
                    severity |-> severity, noted_by |-> user_id]}

\* sqlite: INSERT OR REPLACE INTO failures(...): the row that holds run_id is
\* deleted and a new row, with a new id, is inserted
SqliteReplaceFailure(run_id, severity, user_id) ==
    {f \in failures : f.run_id # run_id} \cup
        {[id |-> seq.failures + 1, run_id |-> run_id,
          severity |-> severity, noted_by |-> user_id]}

\* postgres: INSERT ... ON CONFLICT(run_id) DO UPDATE SET severity, noted_by, noted_at
PostgresUpsertFailure(run_id, severity, user_id) ==
    IF \E f \in failures : f.run_id = run_id
    THEN {IF f.run_id = run_id
          THEN [f EXCEPT !.severity = severity, !.noted_by = user_id]
          ELSE f : f \in failures}
    ELSE failures \cup {[id |-> seq.failures + 1, run_id |-> run_id,
                         severity |-> severity, noted_by |-> user_id]}

\* a classify_failure that looks the run up and refuses one that has passed
classify_failure_result_FailedOnly(run_id, user_id) ==
    IF \/ ~\E r \in test_runs : r.id = run_id /\ r.status = "failed"
       \/ ~UserRefOk(user_id)
    THEN Raises("IntegrityError") ELSE Returns("None")

\* run_id REFERENCES test_runs(id), noted_by REFERENCES users(id)
classify_failure_result(run_id, user_id) ==
    IF ~RunExists(run_id) \/ ~UserRefOk(user_id)
    THEN Raises("IntegrityError") ELSE Returns("None")

\* the failures table as classify_failure(run_id, severity, user_id) commits it
classify_failure_rows(run_id, severity, user_id) ==
    IF DB_BACKEND = "sqlite"
    THEN SqliteReplaceFailure(run_id, severity, user_id)
    ELSE PostgresUpsertFailure(run_id, severity, user_id)

classify_failure(run_id, severity, user_id) ==
    LET after == classify_failure_rows(run_id, severity, user_id) IN
    /\ IF classify_failure_result(run_id, user_id).exc # ""
       THEN NothingWritten
       ELSE /\ failures' = after
            /\ seq' = IF \E f \in after : f.id = seq.failures + 1
                      THEN [seq EXCEPT !.failures = @ + 1] ELSE seq
            /\ UNCHANGED <<users, sessions, test_cases, test_runs, issued>>
    /\ UNCHANGED <<DB_BACKEND, handler>>

\* ----------------------------------------------------------- Aggregator
\* ORDER BY tc.id DESC
RECURSIVE OrderById_Desc(_)
OrderById_Desc(rows) ==
    IF rows = {} THEN <<>>
    ELSE LET first == CHOOSE x \in rows : \A y \in rows : x.id >= y.id
         IN  <<first>> \o OrderById_Desc(rows \ {first})

\* ORDER BY tc.id ASC over a set of test_cases rows
RECURSIVE OrderById(_)
OrderById(rows) ==
    IF rows = {} THEN <<>>
    ELSE LET first == CHOOSE x \in rows : \A y \in rows : x.id <= y.id
         IN  <<first>> \o OrderById(rows \ {first})

\* the subquery without "AND r.session_id = ?"
NeedsPass_AnySession(tc, session_id) ==
    ~\E r \in test_runs : r.test_case_id = tc.id /\ r.status = "passed"

\* r.test_case_id = tc.id AND r.session_id = ? AND r.status='passed'
NeedsPass(tc, session_id) ==
    ~\E r \in test_runs :
        r.test_case_id = tc.id /\ r.session_id = session_id /\ r.status = "passed"

\* SUM(CASE WHEN f.severity=... ) FROM failures f JOIN test_runs r ... WHERE r.session_id=?
SeverityCount(session_id, severity) ==
    Cardinality({f \in failures : f.severity = severity /\
                    \E r \in test_runs : r.id = f.run_id /\ r.session_id = session_id})

counts_for_session(session_id) ==
    [ total_runs   |-> Cardinality({r \in test_runs : r.session_id = session_id}),
      failed_runs  |-> Cardinality({r \in test_runs :
                          r.session_id = session_id /\ r.status = "failed"}),
      to_execute   |-> Cardinality({tc \in test_cases : NeedsPass(tc, session_id)}),
      minor        |-> SeverityCount(session_id, "minor"),
      major        |-> SeverityCount(session_id, "major"),
      critical     |-> SeverityCount(session_id, "critical"),
      needing_pass |-> OrderById({tc \in test_cases : NeedsPass(tc, session_id)}) ]

\* ------------------------------------------------- the sequential system
RowsInserted ==
    seq.users + seq.sessions + seq.test_cases + seq.test_runs + seq.failures

\* the model stops inserting once MaxRows rows have been inserted
Within == RowsInserted' <= MaxRows

\* Every call runs from start to end before the next one starts.
Next ==
    \/ \E name \in UserNameInputs, role \in RoleInputs : upsert_user(name, role) /\ Within
    \/ \E id \in UserIdInputs : DeleteUser(id)
    \/ \E name \in SessionNameInputs : create_session(name) /\ Within
    \/ \E id \in SessionIdInputs : close_session(id)
    \/ \E id \in SessionIdInputs : DeleteSession(id)
    \/ \E author_id \in {NULL} \cup UserIdInputs :
          add_test_case(FilledTitle, FilledSteps, FilledExpected, "studio", author_id) /\ Within
    \/ \E id \in CaseIdInputs : DeleteTestCase(id)
    \/ \E tc \in CaseIdInputs, s \in SessionIdInputs, u \in {NULL} \cup UserIdInputs,
          status \in Statuses : record_test_run(tc, s, u, status) /\ Within
    \/ \E id \in RunIdInputs : DeleteTestRun(id)
    \/ \E r \in RunIdInputs, severity \in Severities, u \in {NULL} \cup UserIdInputs :
          classify_failure(r, severity, u) /\ Within

Spec == Init /\ [][Next]_vars

\* ------------------------------------------- the catalog filled in a row
\* add_test_case called again and again on a catalog that starts empty.
CatalogNext ==
    \E category \in Categories :
        add_test_case(FilledTitle, FilledSteps, FilledExpected, category, NULL)
            /\ seq.test_cases' <= MaxCatalogRun

SpecCatalog == Init /\ [][CatalogNext]_vars

\* ------------------------------------------- the catalog, any arguments
\* add_test_case called with whatever a caller passes for title, steps,
\* expected and category.
FormNext ==
    \E title \in TitleInputs, steps \in StepsInputs, expected \in ExpectedInputs,
       category \in CategoryInputs :
        add_test_case(title, steps, expected, category, NULL)
            /\ seq.test_cases' <= MaxFormCases

SpecForm == Init /\ [][FormNext]_vars

\* ----------------------------------------------- calls running together
\* Each page run is a thread of its own; every function opens a connection
\* of its own and takes no lock, so the statements of two calls interleave.
\* add_test_case and close_session issue a SELECT and then a write.

\* add_test_case, up to the return of get_next_external_id()
add_test_case_read(h, title, steps, expected, category, author_id) ==
    /\ handler[h] = Idle
    /\ handler' = [handler EXCEPT ![h] =
           [op |-> "add_test_case", external_id |-> get_next_external_id,
            title |-> title, steps_json |-> JsonDumps(steps), expected |-> expected,
            category |-> category, author_id |-> author_id]]
    /\ UNCHANGED <<DB_BACKEND, users, sessions, test_cases, test_runs, failures, seq, issued>>

\* add_test_case, the INSERT and the commit
add_test_case_insert(h) ==
    /\ handler[h].op = "add_test_case"
    /\ InsertTestCase(handler[h].external_id, handler[h].title, handler[h].steps_json,
                      handler[h].expected, handler[h].category, handler[h].author_id)
    /\ handler' = [handler EXCEPT ![h] = Idle]
    /\ UNCHANGED DB_BACKEND

\* close_session, up to "if missing_pass > 0: return False"
close_session_count(h, session_id) ==
    /\ handler[h] = Idle
    /\ handler' = IF missing_pass(session_id) > 0 THEN handler
                  ELSE [handler EXCEPT ![h] =
                          [op |-> "close_session", session_id |-> session_id]]
    /\ UNCHANGED <<DB_BACKEND, users, sessions, test_cases, test_runs, failures, seq, issued>>

\* close_session, the UPDATE and the commit
close_session_write(h) ==
    /\ handler[h].op = "close_session"
    /\ sessions' = SetClosed(handler[h].session_id)
    /\ handler' = [handler EXCEPT ![h] = Idle]
    /\ UNCHANGED <<DB_BACKEND, users, test_cases, test_runs, failures, seq, issued>>

\* The single-statement calls on sessions, test cases and runs run between
\* the steps of the two above; users and failures stay empty here.
ConcWithin == RowsInserted' <= MaxConcRows

ConcNext ==
    \/ \E h \in Handlers :
          add_test_case_read(h, FilledTitle, FilledSteps, FilledExpected, "studio", NULL)
    \/ \E h \in Handlers : add_test_case_insert(h) /\ ConcWithin
    \/ \E h \in Handlers, id \in SessionIdInputs : close_session_count(h, id)
    \/ \E h \in Handlers : close_session_write(h)
    \/ \E name \in SessionNameInputs : create_session(name) /\ ConcWithin
    \/ \E tc \in CaseIdInputs, s \in SessionIdInputs, status \in Statuses :
          record_test_run(tc, s, NULL, status) /\ ConcWithin
    \/ \E id \in CaseIdInputs : DeleteTestCase(id)
    \/ \E id \in RunIdInputs : DeleteTestRun(id)

SpecConc == Init /\ [][ConcNext]_vars

\* ------------------------------------------------------------ properties
\* The coverage gate, as the data model words it: every test case of the
\* catalog has at least one run with its id, session s and status passed.
CoverageGate(s) ==
    \A tc \in test_cases :
        \E r \in test_runs :
            r.test_case_id = tc.id /\ r.session_id = s /\ r.status = "passed"

\* run r is the only passing run of its case in session s
OnlyPassingRun(r, s) ==
    /\ r.session_id = s /\ r.status = "passed"
    /\ \A o \in test_runs :
          (o.test_case_id = r.test_case_id /\ o.session_id = s /\ o.status = "passed")
              => o = r

\* C1: in every reachable state close_session(s) returns True exactly when
\* every test case of the catalog has a passing run in s; and deleting the
\* only passing run of a case in s makes a session that close_session would
\* have closed one that it refuses to close.
C1_CloseIffGate ==
    /\ [](\A s \in SessionIdInputs :
             (close_session_result(s) = Returns(TRUE)) <=> CoverageGate(s))
    /\ [][\A r \in test_runs, s \in SessionIdInputs :
             (/\ DeleteTestRun(r.id)
              /\ close_session_result(s) = Returns(TRUE)
              /\ CaseExists(r.test_case_id)
              /\ OnlyPassingRun(r, s))
                 => (close_session_result(s) = Returns(FALSE))']_vars

\* a session that close_session closed while the catalog was not empty, and
\* that has since lost the only run it had
C1_Witness ==
    \E s \in sessions :
        /\ s.closed /\ test_cases # {} /\ seq.test_cases = Cardinality(test_cases)
        /\ test_runs = {} /\ seq.test_runs = 1
        /\ close_session_result(s.id) = Returns(FALSE)

\* C2: for every session id, counts_for_session(s).to_execute is 0 exactly
\* when close_session(s), called in the same state, returns True.
C2_ToExecuteZeroIffCloseable ==
    \A s \in SessionIdInputs :
        (counts_for_session(s).to_execute = 0) <=> (close_session_result(s) = Returns(TRUE))

\* two sessions over a non-empty catalog, one with nothing left to execute,
\* the other with something left
C2_Witness ==
    /\ test_cases # {}
    /\ \E s, t \in sessions :
          /\ counts_for_session(s.id).to_execute = 0
          /\ counts_for_session(t.id).to_execute > 0

\* C3: a session that is closed stays closed for as long as it exists: no
\* call takes the closed flag of a session back to false.
C3_ClosedIsMonotonic ==
    [][\A s \in sessions : \A t \in sessions' :
          (s.closed /\ t.id = s.id) => t.closed]_vars

\* a closed session, in a state where the gate would no longer let it close
\* and where another session has been closed as well
C3_Witness ==
    \E s, t \in sessions :
        /\ s.id # t.id /\ s.closed /\ t.closed
        /\ ~CoverageGate(s.id)

\* the identifier TC-k, written out for k < 100
TC(k) ==
    <<"T", "C", "-">> \o
        (IF k < 10 THEN <<Digit(k)>> ELSE <<Digit(k \div 10), Digit(k % 10)>>)

\* C4: on a catalog that starts empty and is only added to, the case
\* stored by the k-th add_test_case call carries TC-k, and after k calls the
\* next call returns TC-(k+1).
C4_SequentialIds ==
    /\ \A tc \in test_cases : tc.external_id = TC(tc.id)
    /\ \A category \in Categories :
          add_test_case_result(FilledTitle, FilledSteps, FilledExpected, category, NULL)
              = Returns(TC(seq.test_cases + 1))

\* the eleventh call has returned TC-11
C4_Witness ==
    \E tc \in test_cases :
        tc.id = 11 /\ tc.external_id = <<"T", "C", "-", "1", "1">> /\ Cardinality(test_cases) = 11

\* handler h has computed an external_id that a stored case holds by now
StaleExternalId(h) ==
    /\ handler[h].op = "add_test_case"
    /\ \E tc \in test_cases : tc.external_id = handler[h].external_id

\* C5: with add_test_case calls interleaved (read of the maximum, then the
\* insert), no two stored test cases ever share an external_id; the insert of
\* a call whose computed external_id has been taken meanwhile raises the
\* constraint error and leaves test_cases as it was.
C5_UniqueExternalIds ==
    /\ [](\A a, b \in test_cases : a.external_id = b.external_id => a = b)
    /\ [](\A h \in Handlers :
             StaleExternalId(h) =>
                InsertTestCaseResult(handler[h].external_id, handler[h].category,
                                     handler[h].author_id)
                    = Raises("IntegrityError"))
    /\ [][\A h \in Handlers :
             (StaleExternalId(h) /\ add_test_case_insert(h))
                => (test_cases' = test_cases /\ seq' = seq)]_vars

\* two calls computed the same external_id; one has inserted, the other is
\* about to
C5_Witness ==
    \E h \in Handlers :
        /\ StaleExternalId(h)
        /\ handler[h].external_id = <<"T", "C", "-", "1">>
        /\ Cardinality(test_cases) = 1

\* C6: with close_session interleaved with the other calls, the closed flag
\* of a session goes from false to true only in a state where every test
\* case of the catalog has a passing run in that session.
C6_ClosesOnlyWhenCovered ==
    [][\A s \in sessions : \A t \in sessions' :
          (t.id = s.id /\ ~s.closed /\ t.closed) => CoverageGate(s.id)]_vars

\* C7: an external_id is never given twice and never changes: the case a
\* call stores gets an external_id no case was stored with before, and a
\* stored case keeps its external_id.
C7_NeverReused ==
    /\ [][\A t \in test_cases' :
             (\A o \in test_cases : o.id # t.id) => t.external_id \notin issued]_vars
    /\ [][\A o \in test_cases : \A t \in test_cases' :
             t.id = o.id => t.external_id = o.external_id]_vars

\* C8: no run has two failures rows; and classify_failure(r, sev, u), when
\* it returns, leaves exactly one row for run r, with severity sev and
\* noted_by u, whether r had a row before or not.
C8_OneFailurePerRun ==
    /\ \A f, g \in failures : f.run_id = g.run_id => f = g
    /\ \A r \in RunIdInputs, sev \in Severities, u \in {NULL} \cup UserIdInputs :
          classify_failure_result(r, u).exc = "" =>
             LET after == classify_failure_rows(r, sev, u) IN
             /\ Cardinality({f \in after : f.run_id = r}) = 1
             /\ \A f \in after : f.run_id = r => (f.severity = sev /\ f.noted_by = u)

\* the only run there ever was has been classified twice (sqlite hands out a
\* new failures id each time) and holds the later severity
C8_Witness ==
    /\ seq.test_runs = 1 /\ Cardinality(test_runs) = 1
    /\ seq.failures = 2 /\ Cardinality(failures) = 1
    /\ \E f \in failures : f.id = 2 /\ f.severity = "critical"

\* C9: user names are unique; upsert_user(name, role) leaves exactly one user
\* with the trimmed name, with role role, and every other user as it was; it
\* writes no other table; and when that user had that role already, the
\* users table is left as it was.
C9_UpsertKeepsOneUserPerName ==
    /\ [](\A u, v \in users : u.name = v.name => u = v)
    /\ [](\A name \in UserNameInputs, role \in Roles :
             LET after == upsert_user_rows(name, role)
                 n == Strip(name)
             IN  /\ Cardinality({u \in after : u.name = n}) = 1
                 /\ \A u \in after : u.name = n => u.role = role
                 /\ {u \in after : u.name # n} = {u \in users : u.name # n}
                 /\ (\E u \in users : u.name = n /\ u.role = role) => after = users)
    /\ [][\A name \in UserNameInputs, role \in Roles :
             upsert_user(name, role) =>
                /\ UNCHANGED <<sessions, test_cases, test_runs, failures>>
                /\ (\E u \in users : u.name = Strip(name) /\ u.role = role)
                      => UNCHANGED vars]_vars

\* two upserted names, two users; the first one has been made a test lead
C9_Witness ==
    /\ seq.users = 2 /\ Cardinality(users) = 2
    /\ \E u, v \in users :
          /\ u.id = 1 /\ u.name = <<"A">> /\ u.role = "testlead"
          /\ v.id = 2 /\ v.name = <<>> /\ v.role = "tester"

\* C10: deleting a test case removes that case, its runs and the failures of
\* its runs, and nothing else: the other cases, the runs of the other cases,
\* the failures of those runs, the sessions and the users stay as they were.
C10_DeleteCaseCascades ==
    [][\A id \in CaseIdInputs :
          DeleteTestCase(id) =>
            /\ test_cases' = {tc \in test_cases : tc.id # id}
            /\ test_runs' \subseteq test_runs
            /\ \A r \in test_runs : (r \in test_runs') <=> (r.test_case_id # id)
            /\ failures' \subseteq failures
            /\ \A f \in failures :
                  (f \in failures') <=>
                     (\E r \in test_runs : r.id = f.run_id /\ r.test_case_id # id)
            /\ UNCHANGED <<users, sessions>>]_vars

\* of two cases, the one that had a classified failed run has been deleted:
\* its run and the failure went with it, the other case and the session stay
C10_Witness ==
    /\ seq.test_cases = 2 /\ Cardinality(test_cases) = 1
    /\ seq.test_runs = 1 /\ test_runs = {}
    /\ seq.failures = 1 /\ failures = {}
    /\ seq.sessions = 1 /\ Cardinality(sessions) = 1

\* the reference ref after user id is gone
Unlinked(ref, id) == IF ref = id THEN NULL ELSE ref

\* C11: deleting a user removes that user and no test case, run or failure:
\* the rows stay, with author_id, runner_id and noted_by set to NULL where they
\* held the user; sessions are untouched, and for every session the coverage
\* gate is as true after the deletion as it was before.
C11_DeleteUserUnlinksOnly ==
    [][\A id \in UserIdInputs :
          DeleteUser(id) =>
            /\ users' = {u \in users : u.id # id}
            /\ test_cases' = {[tc EXCEPT !.author_id = Unlinked(@, id)] : tc \in test_cases}
            /\ test_runs' = {[r EXCEPT !.runner_id = Unlinked(@, id)] : r \in test_runs}
            /\ failures' = {[f EXCEPT !.noted_by = Unlinked(@, id)] : f \in failures}
            /\ Cardinality(test_cases') = Cardinality(test_cases)
            /\ Cardinality(test_runs') = Cardinality(test_runs)
            /\ Cardinality(failures') = Cardinality(failures)
            /\ UNCHANGED sessions
            /\ \A s \in SessionIdInputs : CoverageGate(s)' <=> CoverageGate(s)]_vars

\* the only user there ever was is gone; the case, the passing run that
\* satisfies the gate of the session, and the failure are still there
C11_Witness ==
    /\ seq.users = 1 /\ users = {}
    /\ \E tc \in test_cases, r \in test_runs, f \in failures, s \in sessions :
          /\ tc.author_id = NULL /\ r.runner_id = NULL /\ f.noted_by = NULL
          /\ r.test_case_id = tc.id /\ r.session_id = s.id /\ f.run_id = r.id
          /\ r.status = "passed" /\ CoverageGate(s.id)

\* C12: in every reachable state every run points to a test case and a
\* session that exist and every failure points to a run that exists;
\* record_test_run with a test_case_id or session_id that is not in the store,
\* and classify_failure with a run_id that is not in the store, raise the
\* constraint error (so that they reach no commit and no row of theirs is
\* ever found in the store).
C12_ReferentialIntegrity ==
    /\ \A r \in test_runs : CaseExists(r.test_case_id) /\ SessionExists(r.session_id)
    /\ \A f \in failures : RunExists(f.run_id)
    /\ \A tc \in CaseIdInputs, s \in SessionIdInputs, u \in {NULL} \cup UserIdInputs :
          (~CaseExists(tc) \/ ~SessionExists(s))
             => record_test_run_result(tc, s, u).exc = "IntegrityError"
    /\ \A r \in RunIdInputs, u \in {NULL} \cup UserIdInputs :
          ~RunExists(r) => classify_failure_result(r, u).exc = "IntegrityError"

\* a run with its failure is stored, and the id of a deleted test case, which
\* record_test_run refuses, is around
C12_Witness ==
    /\ seq.test_cases = 2 /\ Cardinality(test_cases) = 1
    /\ \E r \in test_runs, f \in failures, tc \in 1..seq.test_cases :
          /\ f.run_id = r.id /\ ~CaseExists(tc)
          /\ record_test_run_result(tc, r.session_id, NULL).exc = "IntegrityError"

\* C13: in every reachable state, for a session s in which some test case
\* has no passing run, close_session(s) returns False, as a value and not as
\* an exception, and leaves the sessions table, the only table it ever
\* writes, as it was: s stays open if it was.
C13_RefusedCloseWritesNothing ==
    \A s \in SessionIdInputs :
        ~CoverageGate(s) =>
            /\ close_session_result(s).exc = ""
            /\ close_session_result(s).val = FALSE
            /\ close_session_committed(s) = sessions

\* an open session with a failed run of the only test case: close_session
\* refuses it
C13_Witness ==
    \E s \in sessions, r \in test_runs :
        /\ ~s.closed /\ r.session_id = s.id /\ r.status = "failed"
        /\ Cardinality(test_cases) = 1 /\ ~CoverageGate(s.id)
        /\ close_session_result(s.id) = Returns(FALSE)

C15_SessionNamesValid ==
    [][/\ \A name \in SessionNameInputs :
             (/\ Strip(name) = <<>> \/ \E s \in sessions : s.name = Strip(name)
              /\ create_session(name))
                => (create_session_result(name).exc # "" /\ UNCHANGED <<tables, seq>>)
       /\ \A s \in sessions' : s.name # <<>>
       /\ \A s, t \in sessions' : s.name = t.name => s = t
       /\ \A t \in sessions' : (\A o \in sessions : o.id # t.id) => ~t.closed]_vars

\* the arguments that the validation of the catalog is to accept
ValidCaseArguments(title, steps, expected, category) ==
    /\ Strip(title) # <<>>
    /\ Strip(expected) # <<>>
    /\ Len(steps) >= 1 /\ Len(steps) <= 5
    /\ \A i \in 1..Len(steps) : Strip(steps[i]) # <<>>
    /\ category \in Categories

\* C16: an add_test_case call raises, and stores nothing, when title or
\* expected is empty after trimming, when steps has no entry, more than 5
\* entries or a blank entry, or when category is neither integration nor
\* studio; after every step every stored case has 1 to 5 steps, none blank.
C16_CaseArgumentsValidated ==
    [][/\ \A title \in TitleInputs, steps \in StepsInputs, expected \in ExpectedInputs,
             category \in CategoryInputs :
             (/\ ~ValidCaseArguments(title, steps, expected, category)
              /\ add_test_case(title, steps, expected, category, NULL))
                => (/\ add_test_case_result(title, steps, expected, category, NULL).exc # ""
                    /\ UNCHANGED <<tables, seq>>)
       /\ \A tc \in test_cases' :
             LET steps == JsonLoads(tc.steps_json) IN
             /\ Len(steps) >= 1 /\ Len(steps) <= 5
             /\ \A i \in 1..Len(steps) : Strip(steps[i]) # <<>>]_vars

\* C17: an upsert_user(name, role) call with a name that is empty after
\* trimming raises and neither creates nor changes a user; after every step
\* no stored user has an empty name.
C17_BlankUserNameRejected ==
    [][/\ \A name \in UserNameInputs, role \in Roles :
             (Strip(name) = <<>> /\ upsert_user(name, role))
                => (upsert_user_result(name, role).exc # "" /\ UNCHANGED <<tables, seq>>)
       /\ \A u \in users' : u.name # <<>>]_vars

\* C18: a step that is a record_test_run call with status failed (the run it
\* inserts tells its arguments) leaves the answer of close_session as it was,
\* for every session id: the session of the run, any other, and whether or not
\* the case had a passing run there.
C18_FailedRunKeepsGate ==
    [][\A r \in test_runs' :
          (/\ r \notin test_runs /\ r.status = "failed"
           /\ record_test_run(r.test_case_id, r.session_id, r.runner_id, "failed"))
             => \A s \in SessionIdInputs :
                   (close_session_result(s))' = close_session_result(s)]_vars

\* a case with a passing run in a session got a failed run there afterwards,
\* and close_session still accepts the session
C18_Witness ==
    \E p, f \in test_runs :
        /\ p.test_case_id = f.test_case_id /\ p.session_id = f.session_id
        /\ p.status = "passed" /\ f.status = "failed" /\ p.id < f.id
        /\ CaseExists(p.test_case_id)
        /\ close_session_result(p.session_id) = Returns(TRUE)

\* a step in which a row is deleted by hand (with what the schema cascades)
IsDeletion ==
    \/ \E id \in UserIdInputs : DeleteUser(id)
    \/ \E id \in SessionIdInputs : DeleteSession(id)
    \/ \E id \in CaseIdInputs : DeleteTestCase(id)
    \/ \E id \in RunIdInputs : DeleteTestRun(id)

\* C19: a step that is a record_test_run call (the run it inserts tells its
\* arguments) adds that one run, under an id no stored run has, and leaves
\* the stored runs, failures, test cases, sessions and users as they were; a
\* step that is not a deletion leaves every stored run in place, field by
\* field; and record_test_run accepts a case and a session that have a run
\* together already.
C19_RunLogAppendOnly ==
    /\ [][\A r \in test_runs' :
             (/\ r \notin test_runs
              /\ record_test_run(r.test_case_id, r.session_id, r.runner_id, r.status))
                => /\ test_runs' = test_runs \cup {r}
                   /\ \A o \in test_runs : o.id # r.id
                   /\ UNCHANGED <<users, sessions, test_cases, failures>>]_vars
    /\ [][test_runs \subseteq test_runs' \/ IsDeletion]_vars
    /\ [](\A r \in test_runs :
             record_test_run_result(r.test_case_id, r.session_id, NULL).exc = "")

\* the same case has been recorded three times in the same session
C19_Witness ==
    \E tc \in test_cases, ss \in sessions :
        /\ Cardinality({r \in test_runs :
               r.test_case_id = tc.id /\ r.session_id = ss.id}) = 3
        /\ seq.test_runs = 3

\* the number in the external_id TC-n
TCNumber(external_id) == CastInteger(Substr4(external_id))

\* C20: with calls running one after the other, test cases created and
\* deleted: of two stored cases the one with the larger id has the larger TC
\* number, and the external_id that add_test_case computes, and returns when
\* the insert goes through, has a TC number above that of every stored case.
C20_MonotonicIds ==
    /\ \A a, b \in test_cases :
          a.id < b.id => TCNumber(a.external_id) < TCNumber(b.external_id)
    /\ \A tc \in test_cases :
          TCNumber(get_next_external_id) > TCNumber(tc.external_id)
    /\ add_test_case_result(FilledTitle, FilledSteps, FilledExpected, "studio", NULL)
          = Returns(get_next_external_id)

\* TC-2 was deleted and the third case created got TC-2 again: the ids 1 and
\* 3 carry TC-1 and TC-2
C20_Witness ==
    /\ seq.test_cases = 3
    /\ \E a, b \in test_cases :
          /\ a.id = 1 /\ a.external_id = <<"T", "C", "-", "1">>
          /\ b.id = 3 /\ b.external_id = <<"T", "C", "-", "2">>

\* C21: in every reachable state, for every session id, if close_session
\* returns True then a session with that id is stored and is closed in the
\* sessions table the call leaves; for an id that no stored session has,
\* close_session does not return True, with an empty catalog too.
C21_CloseNeedsSession ==
    \A id \in SessionIdInputs :
        /\ close_session_result(id) = Returns(TRUE) =>
              \E s \in close_session_committed(id) : s.id = id /\ s.closed
        /\ ~SessionExists(id) => close_session_result(id) # Returns(TRUE)

\* the test cases that have no passing run in session s
LackingPass(s) ==
    {tc \in test_cases :
        \A r \in test_runs :
            ~(r.test_case_id = tc.id /\ r.session_id = s /\ r.status = "passed")}

\* C22: for every session id, needing_pass of counts_for_session lists the
\* test cases without a passing run in the session, all of them and no other,
\* in strictly ascending id (so each once); to_execute is the length of that
\* list; total_runs and failed_runs are the numbers of runs and of failed
\* runs of the session, and failed_runs <= total_runs.
C22_CountsMatchCatalog ==
    \A s \in SessionIdInputs :
        LET c == counts_for_session(s)
            list == c.needing_pass
        IN  /\ {list[i] : i \in 1..Len(list)} = LackingPass(s)
            /\ \A i, j \in 1..Len(list) : i < j => list[i].id < list[j].id
            /\ c.to_execute = Len(list)
            /\ c.total_runs = Cardinality({r \in test_runs : r.session_id = s})
            /\ c.failed_runs = Cardinality({r \in test_runs :
                                   r.session_id = s /\ r.status = "failed"})
            /\ c.failed_runs <= c.total_runs

\* of three test cases only the second has a run, a passing one, in a
\* session: the list holds the cases 1 and 3, in that order
C22_Witness ==
    \E s \in sessions :
        LET c == counts_for_session(s.id) IN
        /\ Len(c.needing_pass) = 2
        /\ c.needing_pass[1].id = 1 /\ c.needing_pass[2].id = 3
        /\ Cardinality(test_cases) = 3
        /\ c.total_runs = 1 /\ c.failed_runs = 0

\* C23: in every reachable state classify_failure goes through for every
\* stored run, passed or failed, and the failures table it commits has a row
\* for that run (the witness is a state with a failure on a passed run, in a
\* session whose severity counts add up to more than its failed runs).
C23_ClassifyAnyStatus ==
    \A r \in test_runs, sev \in Severities :
        /\ classify_failure_result(r.id, NULL).exc = ""
        /\ \E f \in classify_failure_rows(r.id, sev, NULL) :
              f.run_id = r.id /\ f.severity = sev

\* a passed run carries a failure, and its session counts one critical
\* failure and no failed run
C23_Witness ==
    \E r \in test_runs, f \in failures :
        LET c == counts_for_session(r.session_id) IN
        /\ r.status = "passed" /\ f.run_id = r.id /\ f.severity = "critical"
        /\ c.failed_runs = 0
        /\ c.minor + c.major + c.critical > c.failed_runs

\* C24: a step that is a classify_failure call for a run that has a failures
\* row already (the row it leaves tells its arguments) keeps the id of that
\* row, and neither adds, changes nor removes a row of another run.
C24_ReclassifiedInPlace ==
    [][\A f \in failures : \A g \in failures' :
          (/\ g \notin failures /\ g.run_id = f.run_id
           /\ classify_failure(g.run_id, g.severity, g.noted_by))
             => (g.id = f.id /\ failures' \ {g} = failures \ {f})]_vars

\* C25: in every reachable state record_test_run goes through for every
\* stored test case and every stored session, closed ones included; and a
\* step that is a record_test_run call (the run it inserts tells its
\* arguments) leaves the sessions table, closed flags included, as it was.
C25_RecordIgnoresClosed ==
    /\ [](\A tc \in test_cases, s \in sessions :
             record_test_run_result(tc.id, s.id, NULL).exc = "")
    /\ [][\A r \in test_runs' :
             (/\ r \notin test_runs
              /\ record_test_run(r.test_case_id, r.session_id, r.runner_id, r.status))
                => UNCHANGED sessions]_vars

\* nothing was ever deleted, and a closed session holds a failed run of a
\* case that has no passing run in it: the run came after the close
C25_Witness ==
    /\ seq.test_cases = Cardinality(test_cases)
    /\ seq.test_runs = Cardinality(test_runs)
    /\ \E s \in sessions, r \in test_runs :
          /\ s.closed /\ r.session_id = s.id /\ r.status = "failed"
          /\ ~CoverageGate(s.id)
          /\ counts_for_session(s.id).total_runs = 2

====
